---- MODULE Spec2Model ----
(***************************************************************************)
(* A model of the rule-based clinical feature extractor of                 *)
(* scripts/nlp_extraction.py (class MetHbExtractor) and of the batch loop  *)
(* of process_all_texts that calls it on one document after the other.     *)
(*                                                                         *)
(* Documents are TLA+ strings and every scan of the code is modelled on    *)
(* the characters of the document: str.lower, the `in` substring test,     *)
(* slicing, and each regular expression as the match the Python `re`       *)
(* engine finds (leftmost start, alternatives in order, lazy and greedy    *)
(* quantifiers resolved as the backtracking engine resolves them).         *)
(* Positions named after Python values (match.start(), case_start,         *)
(* mid_point) are 0-based as in the code; the helper operators on strings  *)
(* take 1-based TLA+ positions.  A regex match is <<capture, position      *)
(* after the match>> (or <<capture>>), and <<>> stands for no match.       *)
(***************************************************************************)
EXTENDS Integers, Sequences, FiniteSets, TLC

VARIABLES text, pc, extracted, case_text, self, results,
          validator, abstracts, pdfs, file_no, all_documents, extracted_texts

vars == <<text, pc, extracted, case_text, self, results,
          validator, abstracts, pdfs, file_no, all_documents, extracted_texts>>

(***************************************************************************)
(* Bounds of the model: how many fragments a generated document holds,     *)
(* how many rows a batch has, how many files of each kind the folder has.  *)
(***************************************************************************)
MaxLevelFrags == 2
MaxCaseFrags == 2
MaxRows == 3
MaxClinicalFrags == 2
MaxFiles == 2

(***************************************************************************)
(* Characters and strings.                                                 *)
(***************************************************************************)
Max(a, b) == IF a > b THEN a ELSE b

\* Python None, and a present optional value.
None == <<>>
Some(v) == <<v>>

\* The character of t at 1-based position i, "" outside the string.
Char(t, i) == IF i >= 1 /\ i <= Len(t) THEN SubSeq(t, i, i) ELSE ""

\* The literal s occurs in t at 1-based position i.
At(t, i, s) == i >= 1 /\ i + Len(s) - 1 <= Len(t) /\ SubSeq(t, i, i + Len(s) - 1) = s

\* Python: s in t
Contains(t, s) == \E i \in 1..(Len(t) - Len(s) + 1) : At(t, i, s)

\* Python slices t[k:] and t[:k] for 0 <= k.
SliceFrom(t, k) == IF k >= Len(t) THEN "" ELSE SubSeq(t, k + 1, Len(t))
SliceTo(t, k) == IF k <= 0 THEN "" ELSE IF k >= Len(t) THEN t ELSE SubSeq(t, 1, k)

UpperCase == "ABCDEFGHIJKLMNOPQRSTUVWXYZ"
LowerCase == "abcdefghijklmnopqrstuvwxyz"
Digits == "0123456789"

\* 1-based position of the first occurrence of the character c in s, 0 when absent.
IndexIn(s, c) == IF \E i \in 1..Len(s) : SubSeq(s, i, i) = c
                 THEN CHOOSE i \in 1..Len(s) : SubSeq(s, i, i) = c
                                               /\ \A h \in 1..(i - 1) : SubSeq(s, h, h) # c
                 ELSE 0

\* The lowercase letter of each uppercase letter.
LowerOf == [c \in {SubSeq(UpperCase, i, i) : i \in 1..Len(UpperCase)} |->
               SubSeq(LowerCase, IndexIn(UpperCase, c), IndexIn(UpperCase, c))]

lowerChar(c) == IF c \in DOMAIN LowerOf THEN LowerOf[c] ELSE c

\* The characters a..b of t, each lowercased (halving keeps the recursion shallow).
RECURSIVE lowerRange(_, _, _)
lowerRange(t, a, b) ==
    IF a > b THEN ""
    ELSE IF a = b THEN lowerChar(SubSeq(t, a, a))
    ELSE lowerRange(t, a, (a + b) \div 2) \o lowerRange(t, (a + b) \div 2 + 1, b)

\* Python: t.lower()
lower(t) == lowerRange(t, 1, Len(t))

\* Regex classes \d, \s, \w and the dot (which does not match a newline).
IsDigit(c) == c \in {"0", "1", "2", "3", "4", "5", "6", "7", "8", "9"}
IsSpace(c) == c \in {" ", "\t", "\n", "\r", "\f"}
IsWordChar(c) == IsDigit(c) \/ IndexIn(LowerCase, c) > 0 \/ c \in DOMAIN LowerOf \/ c = "_"
IsDot(c) == c # "" /\ c # "\n"

\* Position just after the maximal run of digits (of whitespace) starting at p:
\* what a greedy \d* (\s*) consumes.
RECURSIVE DigitRunEnd(_, _)
DigitRunEnd(t, p) == IF IsDigit(Char(t, p)) THEN DigitRunEnd(t, p + 1) ELSE p

RECURSIVE SpaceRunEnd(_, _)
SpaceRunEnd(t, p) == IF IsSpace(Char(t, p)) THEN SpaceRunEnd(t, p + 1) ELSE p

\* The least element of a non-empty set of numbers.
SetMin(S) == CHOOSE i \in S : \A j \in S : i <= j

\* No full stop at the positions a..b of t.
NoStop(t, a, b) == \A h \in a..b : Char(t, h) # "."

\* Of a set of <<index, match>> pairs, those that are matches, and the one
\* with the least index: the leftmost match of a search, the first
\* alternative or the first pattern that matches.
Hits(M) == {x \in M : x[2] # <<>>}
FirstHit(H) == CHOOSE x \in H : \A y \in H : x[1] <= y[1]
FirstValue(H) == IF H # {} THEN FirstHit(H)[2] ELSE <<>>

\* m if it is a match, otherwise what is tried next.
OrElse(m, next) == IF m # <<>> THEN m ELSE next

\* Python int() of a string of decimal digits.
RECURSIVE int(_)
int(s) == IF Len(s) = 0 THEN 0
          ELSE 10 * int(SubSeq(s, 1, Len(s) - 1)) + (IndexIn(Digits, SubSeq(s, Len(s), Len(s))) - 1)

RECURSIVE Pow10(_)
Pow10(k) == IF k = 0 THEN 1 ELSE 10 * Pow10(k - 1)

\* A decimal number as the fraction n / d in lowest decimal form, so that
\* equal numbers are equal values (38, 38. and 38.0 are one float).
RECURSIVE Normalize(_)
Normalize(x) == IF x.d > 1 /\ x.n % 10 = 0 THEN Normalize([n |-> x.n \div 10, d |-> x.d \div 10])
                ELSE x

\* The float with integer digits ip and fraction digits fp.
Decimal(ip, fp) == Normalize([n |-> int(ip) * Pow10(Len(fp)) + int(fp), d |-> Pow10(Len(fp))])

\* Python float() of a capture of (\d+\.?\d*).
float(s) == IF IndexIn(s, ".") = 0 THEN Decimal(s, "")
            ELSE Decimal(SubSeq(s, 1, IndexIn(s, ".") - 1), SliceFrom(s, IndexIn(s, ".")))

FloatOfInt(k) == [n |-> k, d |-> 1]
FloatLess(a, b) == a.n * b.d < b.n * a.d
FloatLeq(a, b) == a.n * b.d <= b.n * a.d

(***************************************************************************)
(* extract_meth_level: the five patterns, re.findall, the range filter     *)
(* and max.                                                                *)
(***************************************************************************)

\* (\d+\.?\d*)\s*% at position p, given q and r: the ends of \d+ and of
\* \.?\d*.  \d+ and \d* are greedy and neither \s nor % is a digit or a
\* dot, so the only parse that can succeed is the greedy one.
NumPctSpace(t, p, r) ==
    IF Char(t, SpaceRunEnd(t, r)) = "%" THEN <<SubSeq(t, p, r - 1), SpaceRunEnd(t, r) + 1>> ELSE <<>>
NumPctFrac(t, p, q) ==
    IF q > p
    THEN NumPctSpace(t, p, IF Char(t, q) = "." THEN DigitRunEnd(t, q + 1) ELSE q)
    ELSE <<>>
NumPct(t, p) == NumPctFrac(t, p, DigitRunEnd(t, p))

\* A lazy gap [^.]*? from k before the rest of a pattern, whose matches by
\* position are H: the gap grows one character (any but the full stop) at a
\* time until the rest matches, so the match is the leftmost one, provided
\* no full stop lies before it.
LazyPick(t, k, H) == IF H # {} /\ NoStop(t, k, FirstHit(H)[1] - 1) THEN FirstHit(H)[2] ELSE <<>>

\* [^.]*?(\d+\.?\d*)\s*% from position k.
LazyNumPct(t, k) == LazyPick(t, k, Hits({<<p, NumPct(t, p)>> : p \in k..Len(t)}))

\* (?:c1|c2|...)[^.]*?(\d+\.?\d*)\s*% at position k: the alternatives from
\* the j-th on are tried in order, each followed by the rest of the pattern.
RECURSIVE AltThenNumPct(_, _, _, _)
AltThenNumPct(t, k, alts, j) ==
    IF j > Len(alts) THEN <<>>
    ELSE OrElse(IF At(t, k, alts[j]) THEN LazyNumPct(t, k + Len(alts[j])) ELSE <<>>,
                AltThenNumPct(t, k, alts, j + 1))

\* [^.]*?(?:c1|c2|...)[^.]*?(\d+\.?\d*)\s*% from position k.
LazyAltNumPct(t, k, alts) ==
    LazyPick(t, k, Hits({<<p, AltThenNumPct(t, p, alts, 1)>> : p \in k..Len(t)}))

Connectors1 == <<"level", "concentration", "measured", "was", "of", "at">>
Connectors2 == <<"level", "concentration", "was", "of", "at">>

\* r'methemoglobin[^.]*?(?:level|concentration|measured|was|of|at)[^.]*?(\d+\.?\d*)\s*%'
Pattern1At(t, i) ==
    IF At(t, i, "methemoglobin") THEN LazyAltNumPct(t, i + 13, Connectors1) ELSE <<>>

\* meth(?:b|Hb) at i: the position after it, 0 when it does not match.
MethbEnd(t, i) == IF At(t, i, "methb") THEN i + 5 ELSE IF At(t, i, "methHb") THEN i + 6 ELSE 0

\* r'meth(?:b|Hb)[^.]*?(?:level|concentration|was|of|at)[^.]*?(\d+\.?\d*)\s*%'
Pattern2At(t, i) ==
    IF MethbEnd(t, i) > 0 THEN LazyAltNumPct(t, MethbEnd(t, i), Connectors2) ELSE <<>>

\* r'methb[^.]*?(\d+\.?\d*)\s*%'
Pattern3At(t, i) ==
    IF At(t, i, "methb") THEN LazyNumPct(t, i + 5) ELSE <<>>

\* r'(\d+\.?\d*)\s*%\s*methemoglobin'
Pattern4Tail(t, m) ==
    IF m # <<>> /\ At(t, SpaceRunEnd(t, m[2]), "methemoglobin")
    THEN <<m[1], SpaceRunEnd(t, m[2]) + 13>>
    ELSE <<>>
Pattern4At(t, i) == Pattern4Tail(t, NumPct(t, i))

\* r'measured\s+(?:at\s+)?(\d+\.?\d*)\s*%': after \s+ the optional group is
\* tried first, then the number directly.
Pattern5ViaAt(t, a) ==
    IF At(t, a, "at") /\ SpaceRunEnd(t, a + 2) > a + 2 THEN NumPct(t, SpaceRunEnd(t, a + 2)) ELSE <<>>
Pattern5At(t, i) ==
    IF At(t, i, "measured") /\ SpaceRunEnd(t, i + 8) > i + 8
    THEN OrElse(Pattern5ViaAt(t, SpaceRunEnd(t, i + 8)), NumPct(t, SpaceRunEnd(t, i + 8)))
    ELSE <<>>

NumPatterns == 5

PatternAt(k, t, i) ==
    CASE k = 1 -> Pattern1At(t, i)
      [] k = 2 -> Pattern2At(t, i)
      [] k = 3 -> Pattern3At(t, i)
      [] k = 4 -> Pattern4At(t, i)
      [] k = 5 -> Pattern5At(t, i)

\* re.findall(pattern, t) from position pos on: the captures of the
\* non-overlapping matches, left to right.
RECURSIVE findall(_, _, _)
FindallNext(k, t, m) == IF m = <<>> THEN <<>> ELSE <<m[1]>> \o findall(k, t, m[2])
findall(k, t, pos) ==
    FindallNext(k, t, FirstValue(Hits({<<i, PatternAt(k, t, i)>> : i \in pos..Len(t)})))

\* The filter without its upper bound.
InRange_NoUpperBound(level) == FloatLess(FloatOfInt(0), level)

\* if 0 < level <= 100
InRange(level) == FloatLess(FloatOfInt(0), level) /\ FloatLeq(level, FloatOfInt(100))

\* The inner loop: all_levels.append(level) for the in-range levels among
\* the matches of one pattern.
RECURSIVE LevelsOf(_)
LevelsOf(matches) ==
    IF matches = <<>> THEN <<>>
    ELSE (IF InRange(float(Head(matches))) THEN <<float(Head(matches))>> ELSE <<>>)
         \o LevelsOf(Tail(matches))

\* The outer loop: all_levels after the patterns k..5.
RECURSIVE AllLevelsFrom(_, _)
AllLevelsFrom(t, k) ==
    IF k > NumPatterns THEN <<>>
    ELSE LevelsOf(findall(k, t, 1)) \o AllLevelsFrom(t, k + 1)

all_levels(txt) == AllLevelsFrom(lower(txt), 1)

\* The first collected level instead of the highest.
MaxLevel_First(ls) == ls[1]

\* Python max() of a non-empty list of floats.
MaxLevel(ls) == ls[CHOOSE i \in 1..Len(ls) : \A j \in 1..Len(ls) : FloatLeq(ls[j], ls[i])]

\* return max(all_levels) if all_levels else None
Peak(ls) == IF ls # <<>> THEN Some(MaxLevel(ls)) ELSE None

extract_meth_level(txt) == Peak(all_levels(txt))

(***************************************************************************)
(* extract_case_section.  A marker is a regular expression made of         *)
(* literals joined by ".*", written here as the sequence of its literals.  *)
(***************************************************************************)
case_markers == <<
    <<"case presentation">>, <<"case report">>, <<"case description">>,
    <<"a", "year", "old", "patient">>, <<"a", "year", "old", "man">>,
    <<"a", "year", "old", "woman">>,
    <<"patient presented">>, <<"we report">>, <<"we present">> >>

\* The literals parts[j..] match from position k on, each after a ".*" gap
\* (any characters but a newline).
RECURSIVE Chain(_, _, _, _)
Chain(t, k, parts, j) ==
    IF j > Len(parts) THEN TRUE
    ELSE \E p \in k..Len(t) : /\ At(t, p, parts[j])
                              /\ \A h \in k..(p - 1) : IsDot(Char(t, h))
                              /\ Chain(t, p + Len(parts[j]), parts, j + 1)

MarkerMatchesAt(t, i, parts) == At(t, i, parts[1]) /\ Chain(t, i + Len(parts[1]), parts, 2)

\* The 0-based positions at which a marker matches: none unless its last
\* literal occurs in the text.
MatchStarts(t, parts) ==
    IF Contains(t, parts[Len(parts)])
    THEN {i - 1 : i \in {h \in 1..Len(t) : MarkerMatchesAt(t, h, parts)}}
    ELSE {}

\* One turn of the loop: match = re.search(marker, text_lower), whose start
\* is the leftmost of the positions `starts`;
\* if match: case_start = max(case_start, match.start())
TryMarker(case_start, starts) ==
    IF starts # {} THEN Max(case_start, SetMin(starts)) ELSE case_start

\* case_start after the loop has tried the first m markers.
RECURSIVE CaseStartAfter(_, _)
CaseStartAfter(t, m) ==
    IF m = 0 THEN 0
    ELSE TryMarker(CaseStartAfter(t, m - 1), MatchStarts(t, case_markers[m]))

\* The slices taken from the lowercased text instead of the original.
RelevantText_Lowered(txt, case_start) ==
    IF case_start > 0 THEN SliceFrom(lower(txt), case_start)
    ELSE SliceTo(lower(txt), Len(txt) \div 2)

\* relevant_text for a given case_start; mid_point = len(text) // 2
RelevantText(txt, case_start) ==
    IF case_start > 0 THEN SliceFrom(txt, case_start)
    ELSE SliceTo(txt, Len(txt) \div 2)

extract_case_section(txt) == RelevantText(txt, CaseStartAfter(lower(txt), Len(case_markers)))

(***************************************************************************)
(* extract_trigger.  The tables are ordered as the dict literals are:      *)
(* each entry is <<label, keywords>>.                                      *)
(***************************************************************************)
triggers == <<
    <<"Acetaminophen", <<"acetaminophen", "paracetamol", "apap", "tylenol">> >>,
    <<"Benzocaine", <<"benzocaine", "hurricane spray", "orajel">> >>,
    <<"Dapsone", <<"dapsone", "aczone">> >>,
    <<"Lidocaine", <<"lidocaine", "xylocaine", "lignocaine">> >>,
    <<"Nitrates", <<"nitrate", "nitrite", "sodium nitrite", "nitrous">> >>,
    <<"Phenazopyridine", <<"phenazopyridine", "pyridium", "azo">> >>,
    <<"Aniline", <<"aniline dye", "aniline">> >>,
    <<"Metoclopramide", <<"metoclopramide", "reglan">> >>,
    <<"Primaquine", <<"primaquine">> >>,
    <<"Sulfonamides", <<"sulfamethoxazole", "trimethoprim", "sulfa">> >>,
    <<"Chloroquine", <<"chloroquine">> >>,
    <<"Rasburicase", <<"rasburicase", "elitek">> >>,
    <<"Genetic", <<"genetic", "hereditary", "congenital", "nadh", "cytochrome b5", "familial">> >> >>

context_phrases == <<
    "after", "following", "induced by", "caused by", "due to",
    "secondary to", "associated with", "exposure to", "ingestion of",
    "overdose", "administration of", "use of", "received">>

\* The character classes [^.{0,50}] and [^.{0,30}]: one character that is
\* none of those listed between the brackets.
BeforeGap(c) == c # "" /\ c \notin {".", "{", "0", ",", "5", "}"}
AfterGap(c) == c # "" /\ c \notin {".", "{", "0", ",", "3", "}"}

\* re.search(f'{phrase}[^.{{0,50}}]{keyword}', t)
PhraseBefore(t, phrase, keyword) ==
    \E i \in 1..Len(t) : /\ At(t, i, phrase)
                         /\ BeforeGap(Char(t, i + Len(phrase)))
                         /\ At(t, i + Len(phrase) + 1, keyword)

\* re.search(f'{keyword}[^.{{0,30}}]{phrase}', t)
PhraseAfter(t, phrase, keyword) ==
    \E i \in 1..Len(t) : /\ At(t, i, keyword)
                         /\ AfterGap(Char(t, i + Len(keyword)))
                         /\ At(t, i + Len(keyword) + 1, phrase)

\* What the loop over the first m context phrases adds to the score.
RECURSIVE Bonus(_, _, _)
Bonus(t, keyword, m) ==
    IF m = 0 THEN 0
    ELSE Bonus(t, keyword, m - 1)
         + (IF PhraseBefore(t, context_phrases[m], keyword) THEN 5 ELSE 0)
         + (IF PhraseAfter(t, context_phrases[m], keyword) THEN 3 ELSE 0)

\* The score of a keyword that is in the text: score = 1, then the bonuses.
KeywordScore(t, keyword) == 1 + Bonus(t, keyword, Len(context_phrases))

\* One turn of the loop over the keywords of a trigger:
\* if keyword in text_lower: ... max_score = max(max_score, score)
TryKeyword(max_score, t, keyword) ==
    IF Contains(t, keyword) THEN Max(max_score, KeywordScore(t, keyword)) ELSE max_score

\* max_score after the first m keywords of a trigger.
RECURSIVE MaxScore(_, _, _)
MaxScore(t, keywords, m) ==
    IF m = 0 THEN 0
    ELSE TryKeyword(MaxScore(t, keywords, m - 1), t, keywords[m])

\* if max_score > 0: trigger_scores[trigger_name] = max_score
ScoreItem(trigger_name, max_score) ==
    IF max_score > 0 THEN << <<trigger_name, max_score>> >> ELSE <<>>

\* trigger_scores after the first m triggers, as the ordered list of
\* <<label, score>> items of the dict.
RECURSIVE TriggerScores(_, _)
TriggerScores(t, m) ==
    IF m = 0 THEN <<>>
    ELSE TriggerScores(t, m - 1)
         \o ScoreItem(self.triggers[m][1],
                      MaxScore(t, self.triggers[m][2], Len(self.triggers[m][2])))

\* The last item with the highest score.
BestIndex_Last(scores) ==
    CHOOSE i \in 1..Len(scores) :
        /\ \A j \in 1..Len(scores) : scores[j][2] <= scores[i][2]
        /\ \A j \in (i + 1)..Len(scores) : scores[j][2] < scores[i][2]

\* max(trigger_scores, key=trigger_scores.get): the first item with the highest score.
BestIndex(scores) ==
    CHOOSE i \in 1..Len(scores) :
        /\ \A j \in 1..Len(scores) : scores[j][2] <= scores[i][2]
        /\ \A j \in 1..(i - 1) : scores[j][2] < scores[i][2]

\* The best trigger returned whatever its score.
Accept_Always(best, count) == best[1]

\* Only return if score > 1 (has context) OR it's the only match
Accept(best, count) == IF best[2] > 1 \/ count = 1 THEN best[1] ELSE "Unknown"

ChooseTrigger(scores) ==
    IF scores # <<>> THEN Accept(scores[BestIndex(scores)], Len(scores)) ELSE "Unknown"

\* The triggers scored on the whole document instead of the case section.
extract_trigger_WholeText(txt) ==
    ChooseTrigger(TriggerScores(lower(txt), Len(self.triggers)))

\* case_text = self.extract_case_section(text); text_lower = case_text.lower()
extract_trigger(txt) ==
    ChooseTrigger(TriggerScores(lower(extract_case_section(txt)), Len(self.triggers)))

(***************************************************************************)
(* extract_treatment, extract_symptoms, extract_exposure_route: presence   *)
(* checks over ordered tables.                                             *)
(***************************************************************************)
treatments == <<
    <<"Methylene Blue", <<"methylene blue", "methylthioninium", "mb", "urolene blue">> >>,
    <<"Vitamin C", <<"vitamin c", "ascorbic acid", "ascorbate">> >>,
    <<"Exchange Transfusion", <<"exchange transfusion", "blood exchange">> >>,
    <<"Oxygen", <<"oxygen therapy", "supplemental oxygen", "high-flow oxygen">> >>,
    <<"Supportive", <<"supportive care", "observation", "conservative">> >> >>

symptoms == <<
    <<"Cyanosis", <<"cyanosis", "cyanotic", "blue", "bluish">> >>,
    <<"Dyspnea", <<"dyspnea", "shortness of breath", "difficulty breathing", "respiratory distress">> >>,
    <<"Altered Mental Status", <<"confusion", "altered mental", "lethargy", "lethargic", "unconscious", "coma">> >>,
    <<"Headache", <<"headache", "head ache">> >>,
    <<"Dizziness", <<"dizziness", "dizzy", "lightheaded">> >>,
    <<"Nausea", <<"nausea", "vomiting", "nauseous">> >>,
    <<"Seizure", <<"seizure", "convulsion">> >>,
    <<"Chest Pain", <<"chest pain", "angina">> >> >>

routes == <<
    <<"Topical", <<"topical", "spray", "applied", "gel">> >>,
    <<"Oral", <<"oral", "ingested", "swallowed", "po">> >>,
    <<"Intravenous", <<"intravenous", "iv", "infusion">> >>,
    <<"Inhalation", <<"inhaled", "inhalation", "gas">> >>,
    <<"Subcutaneous", <<"subcutaneous", "sc", "subq">> >> >>

\* any(keyword in t for keyword in keywords)
AnyIn(t, keywords) == \E j \in 1..Len(keywords) : Contains(t, keywords[j])

\* The list of the labels found by the loop over the first m entries of a table.
RECURSIVE FoundLabels(_, _, _)

\* The loop left at the first label found.
FoundLabels_FirstOnly(t, table, m) ==
    IF {k \in 1..m : AnyIn(t, table[k][2])} = {} THEN <<>>
    ELSE <<table[SetMin({k \in 1..m : AnyIn(t, table[k][2])})][1]>>
FoundLabels(t, table, m) ==
    IF m = 0 THEN <<>>
    ELSE FoundLabels(t, table, m - 1)
         \o (IF AnyIn(t, table[m][2]) THEN <<table[m][1]>> ELSE <<>>)

\* ', '.join(labels)
RECURSIVE Join(_)
Join(labels) ==
    IF labels = <<>> THEN ""
    ELSE IF Len(labels) = 1 THEN labels[1]
    ELSE labels[1] \o ", " \o Join(Tail(labels))

\* The labels joined, with no sentinel for an empty list.
JoinOr_NoSentinel(found, sentinel) == Join(found)

\* ', '.join(found) if found else sentinel
JoinOr(found, sentinel) == IF found # <<>> THEN Join(found) ELSE sentinel

extract_treatment(txt) ==
    JoinOr(FoundLabels(lower(txt), self.treatments, Len(self.treatments)), "Unknown")

extract_symptoms(txt) ==
    JoinOr(FoundLabels(lower(txt), self.symptoms, Len(self.symptoms)), "None specified")

\* The routes, by index, with a keyword in the text.
RoutesIn(t) == {m \in 1..Len(routes) : AnyIn(t, routes[m][2])}

\* The route declared last among those with a keyword in the text.
FirstRoute_Last(S) == IF S # {} THEN routes[SetMin({m \in S : \A k \in S : k <= m})][1] ELSE "Unknown"

\* The loop returns at the first route, in table order, with a keyword in the text.
FirstRoute(S) == IF S # {} THEN routes[SetMin(S)][1] ELSE "Unknown"

extract_exposure_route(txt) == FirstRoute(RoutesIn(lower(txt)))

(***************************************************************************)
(* extract_methylene_blue_dose:                                            *)
(* r'(\d+(?:\.\d+)?(?:\s*-\s*\d+(?:\.\d+)?)?)\s*mg\s*/\s*kg'               *)
(***************************************************************************)
\* The number without its optional fraction.
DoseFracEnd_NoFraction(t, p, q) == IF q = p THEN 0 ELSE q

\* \d+(?:\.\d+)? at p, given the end q of \d+: the position after it, 0 when
\* there is no digit at p.
DoseFracEnd(t, p, q) ==
    IF q = p THEN 0
    ELSE IF Char(t, q) = "." /\ IsDigit(Char(t, q + 1)) THEN DigitRunEnd(t, q + 1)
    ELSE q
DoseNumEnd(t, p) == DoseFracEnd(t, p, DigitRunEnd(t, p))

\* mg\s*/\s*kg matches at a.
UnitAt(t, a) ==
    /\ At(t, a, "mg")
    /\ Char(t, SpaceRunEnd(t, a + 2)) = "/"
    /\ At(t, SpaceRunEnd(t, SpaceRunEnd(t, a + 2) + 1), "kg")

\* (?:\s*-\s*\d+(?:\.\d+)?) at a: the position after it, 0 when it does not match.
DoseRangeDash(t, dash) == IF Char(t, dash) = "-" THEN DoseNumEnd(t, SpaceRunEnd(t, dash + 1)) ELSE 0
DoseRangeEnd(t, a) == DoseRangeDash(t, SpaceRunEnd(t, a))

\* The group from i to before e, if the unit follows there.
DoseCapture(t, i, e) == IF e > 0 /\ UnitAt(t, SpaceRunEnd(t, e)) THEN <<SubSeq(t, i, e - 1)>> ELSE <<>>

\* The pattern at position i, given the end a of the first number: the
\* range is tried first, then the single number.
DoseFrom(t, i, a) ==
    IF a = 0 THEN <<>>
    ELSE OrElse(DoseCapture(t, i, DoseRangeEnd(t, a)), DoseCapture(t, i, a))
DoseAt(t, i) == DoseFrom(t, i, DoseNumEnd(t, i))

\* The pattern `name` at position i of t.
RECURSIVE MatchAt(_, _, _)

\* The leftmost match in t of the pattern `name`: re.search, and the first
\* element of re.findall.
Search(name, t) == FirstValue(Hits({<<i, MatchAt(name, t, i)>> : i \in 1..Len(t)}))

\* The capture of a match, None when there is no match.
FirstCapture(m) == IF m # <<>> THEN Some(m[1]) ELSE None

\* return matches[0] if matches else None
extract_methylene_blue_dose(txt) == FirstCapture(Search("dose", lower(txt)))

(***************************************************************************)
(* extract_demographics.                                                   *)
(***************************************************************************)
\* The class [-<dash>] of the first age pattern.  Besides the hyphen the
\* source holds an en dash, stored in the file as three non-ASCII
\* characters; the documents of this model are ASCII.
IsDash(c) == c = "-"

\* The class [-\s].
IsDashOrSpace(c) == c = "-" \/ IsSpace(c)

\* r'(\d+)\s*[-<dash>]\s*year[-\s]old' at i: year[-\s]old at b, the dash
\* and what follows it at a, the whole pattern at i.
Age1Year(t, b) == At(t, b, "year") /\ IsDashOrSpace(Char(t, b + 4)) /\ At(t, b + 5, "old")
Age1Dash(t, a) == IsDash(Char(t, a)) /\ Age1Year(t, SpaceRunEnd(t, a + 1))
Age1At(t, i) ==
    IF DigitRunEnd(t, i) > i /\ Age1Dash(t, SpaceRunEnd(t, DigitRunEnd(t, i)))
    THEN <<SubSeq(t, i, DigitRunEnd(t, i) - 1)>>
    ELSE <<>>

\* r'(\d+)\s*y(?:ear)?[-\s]?o(?:ld)?' at i: [-\s]?o at e, with and without
\* the optional separator, after y with and without the optional "ear".
Age2Sep(t, e) == (IsDashOrSpace(Char(t, e)) /\ Char(t, e + 1) = "o") \/ Char(t, e) = "o"
Age2Y(t, a) == Char(t, a) = "y" /\ ((At(t, a + 1, "ear") /\ Age2Sep(t, a + 4)) \/ Age2Sep(t, a + 1))
Age2At(t, i) ==
    IF DigitRunEnd(t, i) > i /\ Age2Y(t, SpaceRunEnd(t, DigitRunEnd(t, i)))
    THEN <<SubSeq(t, i, DigitRunEnd(t, i) - 1)>>
    ELSE <<>>

\* Position just after the maximal run of [:\s] starting at p.
RECURSIVE ColonSpaceRunEnd(_, _)
ColonSpaceRunEnd(t, p) ==
    IF Char(t, p) = ":" \/ IsSpace(Char(t, p)) THEN ColonSpaceRunEnd(t, p + 1) ELSE p

\* (\d+) at a, which must lie after e.
AgeDigits(t, e, a) ==
    IF a > e /\ DigitRunEnd(t, a) > a THEN <<SubSeq(t, a, DigitRunEnd(t, a) - 1)>> ELSE <<>>

\* r'age[:\s]+(\d+)'
Age3At(t, i) ==
    IF At(t, i, "age") THEN AgeDigits(t, i + 3, ColonSpaceRunEnd(t, i + 3)) ELSE <<>>

\* r'aged\s+(\d+)'
Age4At(t, i) ==
    IF At(t, i, "aged") THEN AgeDigits(t, i + 4, SpaceRunEnd(t, i + 4)) ELSE <<>>

\* The match that begins leftmost in the text, whichever pattern gives it.
AgeMatch_Leftmost(t) ==
    FirstValue(Hits({<<i, OrElse(MatchAt("age1", t, i), OrElse(MatchAt("age2", t, i),
                          OrElse(MatchAt("age3", t, i), MatchAt("age4", t, i))))>> : i \in 1..Len(t)}))

\* The loop over age_patterns: the match of the first pattern that matches.
AgeMatch(t) ==
    OrElse(Search("age1", t), OrElse(Search("age2", t), OrElse(Search("age3", t), Search("age4", t))))

\* age = int(match.group(1)), else None
extract_age(txt) ==
    IF AgeMatch(lower(txt)) # <<>> THEN Some(int(AgeMatch(lower(txt))[1])) ELSE None

\* re.search(r'\bw\b', t) for a word w of letters
HasWord(t, w) ==
    \E i \in 1..Len(t) : /\ At(t, i, w)
                         /\ ~IsWordChar(Char(t, i - 1))
                         /\ ~IsWordChar(Char(t, i + Len(w)))

\* Look in first 500 characters
IntroLen == 500

GenderOf(intro) ==
    IF HasWord(intro, "male") /\ ~HasWord(intro, "female") THEN Some("Male")
    ELSE IF HasWord(intro, "female") THEN Some("Female")
    ELSE IF HasWord(intro, "man") \/ HasWord(intro, "men") \/ HasWord(intro, "boy") THEN Some("Male")
    ELSE IF HasWord(intro, "woman") \/ HasWord(intro, "women") \/ HasWord(intro, "girl") THEN Some("Female")
    ELSE None

\* The cascade on the whole text instead of the first 500 characters.
extract_gender_WholeText(txt) == GenderOf(lower(txt))

extract_gender(txt) == GenderOf(SliceTo(lower(txt), IntroLen))

(***************************************************************************)
(* extract_outcome, extract_g6pd_status, extract_time_to_improvement.      *)
(***************************************************************************)
\* The death terms checked before the recovery terms.
extract_outcome_FatalFirst(txt) ==
    IF AnyIn(lower(txt), <<"died", "death", "fatal", "expired", "mortality">>) THEN "Fatal"
    ELSE IF AnyIn(lower(txt), <<"recovered", "discharged", "improved", "resolved", "uneventful recovery">>)
    THEN "Recovered"
    ELSE IF AnyIn(lower(txt), <<"transferred", "admitted">>) THEN "Admitted"
    ELSE "Unknown"

extract_outcome(txt) ==
    IF AnyIn(lower(txt), <<"recovered", "discharged", "improved", "resolved", "uneventful recovery">>)
    THEN "Recovered"
    ELSE IF AnyIn(lower(txt), <<"died", "death", "fatal", "expired", "mortality">>) THEN "Fatal"
    ELSE IF AnyIn(lower(txt), <<"transferred", "admitted">>) THEN "Admitted"
    ELSE "Unknown"

\* The word tests made without asking for a G6PD synonym first.
extract_g6pd_status_NoSynonymTest(txt) ==
    IF AnyIn(lower(txt), <<"deficiency", "deficient">>) THEN "Deficient"
    ELSE IF Contains(lower(txt), "normal") THEN "Normal"
    ELSE IF AnyIn(lower(txt), <<"g6pd", "g-6-pd", "glucose-6-phosphate dehydrogenase">>) THEN "Mentioned"
    ELSE "Not mentioned"

extract_g6pd_status(txt) ==
    IF AnyIn(lower(txt), <<"g6pd", "g-6-pd", "glucose-6-phosphate dehydrogenase">>)
    THEN IF AnyIn(lower(txt), <<"deficiency", "deficient">>) THEN "Deficient"
         ELSE IF Contains(lower(txt), "normal") THEN "Normal"
         ELSE "Mentioned"
    ELSE "Not mentioned"

TimeVerbs == <<"improved", "improvement", "resolved", "resolution">>
TimePreps == <<"within", "after", "in">>
TimeUnits == <<"hour", "hr", "minute", "min">>

\* The alternatives of alts that match at p, by index.
AltsAt(t, p, alts) == {j \in 1..Len(alts) : At(t, p, alts[j])}

\* f"{number} {unit}" for the first of the unit alternatives U.
TimeResult(number, U) == IF U # {} THEN <<number \o " " \o TimeUnits[SetMin(U)]>> ELSE <<>>

\* r'(?:improved|improvement|resolved|resolution)\s+(?:within|after|in)\s+(\d+)\s*(hour|hr|minute|min)'
\* at i, piece by piece from the right: the unit after the digits b..q-1, the
\* digits after \s+ from e, the preposition after \s+ from e, the verb at i.
Time1Unit(t, b, q) ==
    IF q > b THEN TimeResult(SubSeq(t, b, q - 1), AltsAt(t, SpaceRunEnd(t, q), TimeUnits)) ELSE <<>>
Time1Num(t, e) ==
    IF SpaceRunEnd(t, e) > e
    THEN Time1Unit(t, SpaceRunEnd(t, e), DigitRunEnd(t, SpaceRunEnd(t, e)))
    ELSE <<>>
Time1Prep(t, e, a) ==
    IF a > e
    THEN FirstValue(Hits({<<p, Time1Num(t, a + Len(TimePreps[p]))>> : p \in AltsAt(t, a, TimePreps)}))
    ELSE <<>>
Time1Verb(t, e) == Time1Prep(t, e, SpaceRunEnd(t, e))
Time1At(t, i) ==
    FirstValue(Hits({<<v, Time1Verb(t, i + Len(TimeVerbs[v]))>> : v \in AltsAt(t, i, TimeVerbs)}))

\* r'(\d+)\s*(hour|hr|minute|min)\s+(?:after|post)\s+(?:treatment|administration)'
\* at i: the unit is the first alternative after which the rest matches.
Time2Word(t, a, w) ==
    /\ At(t, a, w)
    /\ SpaceRunEnd(t, a + Len(w)) > a + Len(w)
    /\ (At(t, SpaceRunEnd(t, a + Len(w)), "treatment")
        \/ At(t, SpaceRunEnd(t, a + Len(w)), "administration"))
Time2Rest(t, e) ==
    /\ SpaceRunEnd(t, e) > e
    /\ (Time2Word(t, SpaceRunEnd(t, e), "after") \/ Time2Word(t, SpaceRunEnd(t, e), "post"))
Time2Unit(t, number, u) ==
    TimeResult(number, {j \in AltsAt(t, u, TimeUnits) : Time2Rest(t, u + Len(TimeUnits[j]))})
Time2At(t, i) ==
    IF DigitRunEnd(t, i) > i
    THEN Time2Unit(t, SubSeq(t, i, DigitRunEnd(t, i) - 1), SpaceRunEnd(t, DigitRunEnd(t, i)))
    ELSE <<>>

MatchAt(name, t, i) ==
    CASE name = "dose" -> DoseAt(t, i)
      [] name = "age1" -> Age1At(t, i)
      [] name = "age2" -> Age2At(t, i)
      [] name = "age3" -> Age3At(t, i)
      [] name = "age4" -> Age4At(t, i)
      [] name = "time1" -> Time1At(t, i)
      [] name = "time2" -> Time2At(t, i)

\* The loop over the patterns: the match of the first pattern that matches.
extract_time_to_improvement(txt) ==
    FirstCapture(OrElse(Search("time1", lower(txt)), Search("time2", lower(txt))))

(***************************************************************************)
(* calculate_data_quality_score.                                           *)
(***************************************************************************)
\* The test that leaves 'None specified' out of the excluded values.
CountsLabel_UnknownOnly(value) == value # "" /\ value # "Unknown"

\* `if value and value not in ['Unknown', 'None specified', None]` for a field
\* that holds a string label,
CountsLabel(value) == value # "" /\ value \notin {"Unknown", "None specified"}

\* for an optional number (None, a float or an int: 0 is falsy),
CountsNumber(value, zero) == value # None /\ value[1] # zero

\* and for an optional string.
CountsOptLabel(value) == value # None /\ CountsLabel(value[1])

\* The percentage rounded to the nearest integer.
Percent_Rounded(score, fields) == (score * 200 + fields) \div (2 * fields)

\* int((score / len(key_fields)) * 100)
Percent(score, fields) == (score * 100) \div fields

NumKeyFields == 7

\* score after the loop over key_fields
KeyFieldCount(e) ==
    (IF CountsNumber(e.meth_level, FloatOfInt(0)) THEN 1 ELSE 0)
    + (IF CountsLabel(e.trigger) THEN 1 ELSE 0)
    + (IF CountsLabel(e.treatment) THEN 1 ELSE 0)
    + (IF CountsNumber(e.age, 0) THEN 1 ELSE 0)
    + (IF CountsOptLabel(e.gender) THEN 1 ELSE 0)
    + (IF CountsLabel(e.symptoms) THEN 1 ELSE 0)
    + (IF CountsLabel(e.outcome) THEN 1 ELSE 0)

calculate_data_quality_score(e) == Percent(KeyFieldCount(e), NumKeyFields)

(***************************************************************************)
(* The documents the model is run on: the examples of the specification    *)
(* and every concatenation of a few fragments of case-report text.         *)
(***************************************************************************)
Example2 == "A 34-year-old man presented after dapsone overdose. Methemoglobin 38%. Treated with methylene blue 1.5 mg/kg. He recovered fully."

\* A trigger with three cause phrases around its mentions, and two symptoms.
BonusSample == "Background. We report cyanosis and dyspnea following dapsone use and after dapsone overdose."

\* A cause phrase one word away from the trigger it introduces.
WindowSample == "Background. We report a man who presented after taking dapsone. Acetaminophen was also given."

\* A patient in the first year of life.
NewbornSample == "A 0-year-old infant."

\* A G6PD-deficient patient given methylene blue, with a high level.
ContraindicatedSample == "MetHb 75%. G6PD deficiency, methylene blue."

\* The documents the batches of several rows are made of.
Samples == {BonusSample, NewbornSample, ContraindicatedSample}

LevelFragments == {
    "methemoglobin level was ", "methb measured at ",
    "38%", "12.5 %", "150% ", "0%. "}

CaseFragments == {
    "Case report. ", "we report ", "A 34-year-old man ", "He received apap. ",
    "after dapsone ", "acetaminophen. dapsone induced methemoglobinemia. "}

\* The concatenations of at most n fragments.
RECURSIVE Concatenations(_, _)
Concatenations(fragments, n) ==
    IF n = 0 THEN {""}
    ELSE LET shorter == Concatenations(fragments, n - 1)
         IN shorter \cup {d \o f : d \in shorter, f \in fragments}

\* Documents of three fragments: a level out of range before a level in
\* range, a greater level after a smaller one, and two triggers with the
\* same score.
FragmentSamples == {
    "150% methemoglobin level was 38%",
    "38%methemoglobin level was 12.5 %",
    "after dapsone He received apap. acetaminophen. dapsone induced methemoglobinemia. "}

\* Families of clinical phrases: G6PD status and treatment; outcome and
\* level; age; symptoms, treatments and routes; gender.
ClinicalFragments == <<
    {"G6PD ", "G6PD deficiency ", "deficient ", "normal ", "methylene blue "},
    {"He recovered. ", "She died. ", "admitted. ", "Methemoglobin 75%. ", "MetHb 5%. "},
    {"aged 40 ", "34-year-old ", "5 yo ", "age: 7 "},
    {"dyspnea ", "cyanotic cyanosis ", "vitamin c ", "methylene blue. ", "inhaled ", "oral "},
    {"male ", "female ", "man ", "woman "} >>

\* Documents longer than the 500 characters read for the gender: a filler
\* of 500 characters between an opening phrase and a closing one.
LongDocuments ==
    LET x10 == "xxxxxxxxx "
        x100 == x10 \o x10 \o x10 \o x10 \o x10 \o x10 \o x10 \o x10 \o x10 \o x10
        x500 == x100 \o x100 \o x100 \o x100 \o x100
    IN {head \o x500 \o tail : head \in {"", "A man "}, tail \in {"female", "a boy"}}

Documents == Concatenations(LevelFragments, MaxLevelFrags)
             \cup Concatenations(CaseFragments, MaxCaseFrags)
             \cup UNION {Concatenations(ClinicalFragments[k], MaxClinicalFrags)
                         : k \in 1..Len(ClinicalFragments)}
             \cup LongDocuments
             \cup FragmentSamples
             \cup Samples \cup {Example2, WindowSample}

(***************************************************************************)
(* extract_all_features: the calls in the order the code makes them.  pc   *)
(* names the call to make next; a field holds "" or None until its call    *)
(* has returned.  At "done" extract_all_features has returned its record,  *)
(* at "appended" process_all_texts has appended it to results, at          *)
(* "validated" the validator has reported on the batch.  self holds the    *)
(* tables of the one extractor all the calls of a batch are made on.       *)
(***************************************************************************)
Steps == <<"demographics", "meth_level", "trigger", "trigger_route", "treatment",
           "mb_dose", "symptoms", "g6pd_status", "time_to_improvement", "outcome",
           "data_quality_score", "done", "appended", "validated">>

StepIndex(step) == IF \E k \in 1..Len(Steps) : Steps[k] = step
                   THEN CHOOSE k \in 1..Len(Steps) : Steps[k] = step
                   ELSE 0

\* The call `step` has returned.
Returned(step) == StepIndex(pc) > StepIndex(step)

\* The fields of a record at the start of a call.
NoFeatures == [meth_level |-> None, trigger |-> "", trigger_route |-> "",
               treatment |-> "", mb_dose |-> None, symptoms |-> "",
               age |-> None, gender |-> None, g6pd_status |-> "",
               time_to_improvement |-> None, outcome |-> "",
               data_quality_score |-> 0]

\* extractor = MetHbExtractor(); results = []; the first row of the batch.
Init ==
    /\ text \in Documents
    /\ pc = "demographics"
    /\ case_text = ""
    /\ extracted = NoFeatures
    /\ self = [triggers |-> triggers, treatments |-> treatments, symptoms |-> symptoms]
    /\ results = <<>>
    /\ validator = None
    /\ abstracts = <<>> /\ pdfs = <<>> /\ file_no = 0
    /\ all_documents = <<>>
    /\ extracted_texts = None

ExtractDemographics ==
    /\ pc = "demographics"
    /\ extracted' = [extracted EXCEPT !.age = extract_age(text), !.gender = extract_gender(text)]
    /\ pc' = "meth_level"
    /\ UNCHANGED <<text, case_text, self, results,
                 validator, abstracts, pdfs, file_no, all_documents, extracted_texts>>

ExtractMethLevel ==
    /\ pc = "meth_level"
    /\ extracted' = [extracted EXCEPT !.meth_level = extract_meth_level(text)]
    /\ pc' = "trigger"
    /\ UNCHANGED <<text, case_text, self, results,
                 validator, abstracts, pdfs, file_no, all_documents, extracted_texts>>

ExtractTrigger ==
    /\ pc = "trigger"
    /\ case_text' = extract_case_section(text)
    /\ extracted' = [extracted EXCEPT !.trigger = extract_trigger(text)]
    /\ pc' = "trigger_route"
    /\ UNCHANGED <<text, self, results,
                 validator, abstracts, pdfs, file_no, all_documents, extracted_texts>>

ExtractExposureRoute ==
    /\ pc = "trigger_route"
    /\ extracted' = [extracted EXCEPT !.trigger_route = extract_exposure_route(text)]
    /\ pc' = "treatment"
    /\ UNCHANGED <<text, case_text, self, results,
                 validator, abstracts, pdfs, file_no, all_documents, extracted_texts>>

\* The call drops from the treatment table the entry it looked up first.
ExtractTreatment_Popping ==
    /\ pc = "treatment"
    /\ extracted' = [extracted EXCEPT !.treatment = extract_treatment(text)]
    /\ self' = [self EXCEPT !.treatments = SubSeq(@, 2, Len(@))]
    /\ pc' = "mb_dose"
    /\ UNCHANGED <<text, case_text, results,
                 validator, abstracts, pdfs, file_no, all_documents, extracted_texts>>

ExtractTreatment ==
    /\ pc = "treatment"
    /\ extracted' = [extracted EXCEPT !.treatment = extract_treatment(text)]
    /\ pc' = "mb_dose"
    /\ UNCHANGED <<text, case_text, self, results,
                 validator, abstracts, pdfs, file_no, all_documents, extracted_texts>>

ExtractMethyleneBlueDose ==
    /\ pc = "mb_dose"
    /\ extracted' = [extracted EXCEPT !.mb_dose = extract_methylene_blue_dose(text)]
    /\ pc' = "symptoms"
    /\ UNCHANGED <<text, case_text, self, results,
                 validator, abstracts, pdfs, file_no, all_documents, extracted_texts>>

\* The call drops from the symptom table the entry it looked up first.
ExtractSymptoms_Popping ==
    /\ pc = "symptoms"
    /\ extracted' = [extracted EXCEPT !.symptoms = extract_symptoms(text)]
    /\ self' = [self EXCEPT !.symptoms = SubSeq(@, 2, Len(@))]
    /\ pc' = "g6pd_status"
    /\ UNCHANGED <<text, case_text, results,
                 validator, abstracts, pdfs, file_no, all_documents, extracted_texts>>

ExtractSymptoms ==
    /\ pc = "symptoms"
    /\ extracted' = [extracted EXCEPT !.symptoms = extract_symptoms(text)]
    /\ pc' = "g6pd_status"
    /\ UNCHANGED <<text, case_text, self, results,
                 validator, abstracts, pdfs, file_no, all_documents, extracted_texts>>

\* The call withdraws the treatment of a record it finds G6PD deficient.
ExtractG6pdStatus_Suppressing ==
    /\ pc = "g6pd_status"
    /\ extracted' = [extracted EXCEPT
                         !.g6pd_status = extract_g6pd_status(text),
                         !.treatment = IF extract_g6pd_status(text) = "Deficient"
                                       THEN "Unknown" ELSE @]
    /\ pc' = "time_to_improvement"
    /\ UNCHANGED <<text, case_text, self, results,
                 validator, abstracts, pdfs, file_no, all_documents, extracted_texts>>

ExtractG6pdStatus ==
    /\ pc = "g6pd_status"
    /\ extracted' = [extracted EXCEPT !.g6pd_status = extract_g6pd_status(text)]
    /\ pc' = "time_to_improvement"
    /\ UNCHANGED <<text, case_text, self, results,
                 validator, abstracts, pdfs, file_no, all_documents, extracted_texts>>

ExtractTimeToImprovement ==
    /\ pc = "time_to_improvement"
    /\ extracted' = [extracted EXCEPT !.time_to_improvement = extract_time_to_improvement(text)]
    /\ pc' = "outcome"
    /\ UNCHANGED <<text, case_text, self, results,
                 validator, abstracts, pdfs, file_no, all_documents, extracted_texts>>

ExtractOutcome ==
    /\ pc = "outcome"
    /\ extracted' = [extracted EXCEPT !.outcome = extract_outcome(text)]
    /\ pc' = "data_quality_score"
    /\ UNCHANGED <<text, case_text, self, results,
                 validator, abstracts, pdfs, file_no, all_documents, extracted_texts>>

CalculateDataQualityScore ==
    /\ pc = "data_quality_score"
    /\ extracted' = [extracted EXCEPT !.data_quality_score = calculate_data_quality_score(extracted)]
    /\ pc' = "done"
    /\ UNCHANGED <<text, case_text, self, results,
                 validator, abstracts, pdfs, file_no, all_documents, extracted_texts>>

\* results.append(features), the record kept with the text of its row.
AppendFeatures ==
    /\ pc = "done"
    /\ results' = Append(results, <<text, extracted>>)
    /\ pc' = "appended"
    /\ UNCHANGED <<text, extracted, case_text, self,
                 validator, abstracts, pdfs, file_no, all_documents, extracted_texts>>

\* The loop goes on to the next row of the batch, and a new call starts on
\* its text.  The batches of several rows are made of the sample documents,
\* in any order and with repetitions.
NextRow ==
    /\ pc = "appended"
    /\ Len(results) < MaxRows
    /\ text \in Samples
    /\ text' \in Samples
    /\ pc' = "demographics"
    /\ extracted' = NoFeatures
    /\ case_text' = ""
    /\ UNCHANGED <<self, results,
                 validator, abstracts, pdfs, file_no, all_documents, extracted_texts>>

(***************************************************************************)
(* data_validation.py: validator = DataValidator() is made on the file     *)
(* process_all_texts has written from results, and                         *)
(* generate_validation_report runs the checks that add to self.issues.  A  *)
(* row is known by its position in the batch, which stands for its pmid.   *)
(* An issue is kept without its message.                                   *)
(***************************************************************************)
\* The concatenation of a sequence of sequences.
RECURSIVE Concat(_)
Concat(seqs) == IF seqs = <<>> THEN <<>> ELSE Head(seqs) \o Concat(Tail(seqs))

\* The invalid range taken to begin above 70.
MethIssue_HighIsInvalid(row) ==
    IF row.meth_level = None THEN <<>>
    ELSE IF FloatLess(row.meth_level[1], FloatOfInt(0)) \/ FloatLess(FloatOfInt(70), row.meth_level[1])
    THEN <<[pmid |-> row.pmid, issue_type |-> "Invalid MetHb Range", value |-> row.meth_level[1]]>>
    ELSE IF FloatLess(row.meth_level[1], FloatOfInt(10))
    THEN <<[pmid |-> row.pmid, issue_type |-> "Low MetHb Level", value |-> row.meth_level[1]]>>
    ELSE <<>>

\* The body of the loop of check_meth_levels: the issues of one row.
MethIssue(row) ==
    IF row.meth_level = None THEN <<>>
    ELSE IF FloatLess(row.meth_level[1], FloatOfInt(0)) \/ FloatLess(FloatOfInt(100), row.meth_level[1])
    THEN <<[pmid |-> row.pmid, issue_type |-> "Invalid MetHb Range", value |-> row.meth_level[1]]>>
    ELSE IF FloatLess(FloatOfInt(70), row.meth_level[1])
    THEN <<[pmid |-> row.pmid, issue_type |-> "Unusually High MetHb", value |-> row.meth_level[1]]>>
    ELSE IF FloatLess(row.meth_level[1], FloatOfInt(10))
    THEN <<[pmid |-> row.pmid, issue_type |-> "Low MetHb Level", value |-> row.meth_level[1]]>>
    ELSE <<>>

\* The body of the loop of check_age_values.
AgeIssue(row) ==
    IF row.age # None /\ (row.age[1] < 0 \/ row.age[1] > 120)
    THEN <<[pmid |-> row.pmid, issue_type |-> "Invalid Age", value |-> row.age[1]]>>
    ELSE <<>>

\* The contraindication flagged when either of its two conditions holds.
MismatchIssues_EitherCondition(row) ==
    IF Contains(row.g6pd_status, "Deficient") \/ Contains(row.treatment, "Methylene Blue")
    THEN <<[pmid |-> row.pmid, issue_type |-> "G6PD + Methylene Blue",
            value |-> "G6PD: " \o row.g6pd_status \o ", Treatment: " \o row.treatment]>>
    ELSE <<>>

\* The body of the loop of check_trigger_treatment_mismatch: two
\* independent tests.
MismatchIssues(row) ==
    (IF Contains(row.g6pd_status, "Deficient") /\ Contains(row.treatment, "Methylene Blue")
     THEN <<[pmid |-> row.pmid, issue_type |-> "G6PD + Methylene Blue",
             value |-> "G6PD: " \o row.g6pd_status \o ", Treatment: " \o row.treatment]>>
     ELSE <<>>)
    \o
    (IF row.trigger = "Genetic" /\ Contains(row.treatment, "Methylene Blue")
     THEN <<[pmid |-> row.pmid, issue_type |-> "Genetic + Methylene Blue",
             value |-> "Trigger: " \o row.trigger \o ", Treatment: " \o row.treatment]>>
     ELSE <<>>)

\* The body of the loop of identify_extraction_errors; its records have an
\* error_type, kept here in the field issue_type.
ExtractionErrors(row) ==
    (IF row.meth_level # None
        /\ row.meth_level[1] \in {FloatOfInt(72), FloatOfInt(24), FloatOfInt(48), FloatOfInt(96)}
     THEN <<[pmid |-> row.pmid, issue_type |-> "Possible Time Value", value |-> row.meth_level[1]]>>
     ELSE <<>>)
    \o
    (IF Len(row.symptoms) > 200
     THEN <<[pmid |-> row.pmid, issue_type |-> "Garbled Symptoms", value |-> SliceTo(row.symptoms, 50) \o "..."]>>
     ELSE <<>>)

\* validator = DataValidator(); validator.generate_validation_report().
\* df is what pd.read_csv gives for the file written by
\* results_df.to_csv(output_file, index=False), in the columns the checks
\* read: a None is written as an empty cell and read as NaN, a number is
\* read as the number written, and none of the labels is a string pandas
\* reads as NaN.  The report calls check_meth_levels, check_age_values,
\* check_trigger_treatment_mismatch and identify_extraction_errors, each
\* extending self.issues with what its loop over the rows finds.
GenerateValidationReport ==
    /\ pc = "appended"
    /\ LET df == [r \in 1..Len(results) |-> [pmid |-> r,
                                             meth_level |-> results[r][2].meth_level,
                                             age |-> results[r][2].age,
                                             trigger |-> results[r][2].trigger,
                                             treatment |-> results[r][2].treatment,
                                             symptoms |-> results[r][2].symptoms,
                                             g6pd_status |-> results[r][2].g6pd_status]]
       IN validator' = [df |-> df,
                        issues |-> Concat([r \in 1..Len(df) |-> MethIssue(df[r])])
                                   \o Concat([r \in 1..Len(df) |-> AgeIssue(df[r])])
                                   \o Concat([r \in 1..Len(df) |-> MismatchIssues(df[r])])
                                   \o Concat([r \in 1..Len(df) |-> ExtractionErrors(df[r])])]
    /\ pc' = "validated"
    /\ UNCHANGED <<text, extracted, case_text, self, results,
                   abstracts, pdfs, file_no, all_documents, extracted_texts>>

Next ==
    \/ ExtractDemographics
    \/ ExtractMethLevel
    \/ ExtractTrigger
    \/ ExtractExposureRoute
    \/ ExtractTreatment
    \/ ExtractMethyleneBlueDose
    \/ ExtractSymptoms
    \/ ExtractG6pdStatus
    \/ ExtractTimeToImprovement
    \/ ExtractOutcome
    \/ CalculateDataQualityScore
    \/ AppendFeatures
    \/ NextRow
    \/ GenerateValidationReport

Spec == Init /\ [][Next]_vars

(***************************************************************************)
(* extract_texts.py, process_all_documents: a second specification.  A     *)
(* file is what reading it gives: an abstract is readable or not and has a *)
(* text; a PDF is readable or not and has pages, and a page gives a text   *)
(* or None when extract_text fails on it.  file_no counts the files over   *)
(* both loops, the abstracts first; pc is "reading" until the output is    *)
(* "saved".  A row is kept without its pmid, which is made from the name   *)
(* of the file.                                                            *)
(***************************************************************************)
\* try: file.read(), return text; except Exception: return None
extract_text_from_abstract(file) == IF file.readable THEN Some(file.text) ELSE None

\* try: text = "", text += page.extract_text() + "\n" for each page, return
\* text; except Exception: return None
extract_text_from_pdf(file) ==
    LET RECURSIVE PagesText(_)
        PagesText(k) == IF k = 0 THEN "" ELSE PagesText(k - 1) \o file.pages[k][1] \o "\n"
    IN IF file.readable /\ \A k \in 1..Len(file.pages) : file.pages[k] # None
       THEN Some(PagesText(Len(file.pages)))
       ELSE None

\* all_documents with the row of a file added `if text:`, as it is otherwise.
\* The files are named abstract_1.txt, abstract_2.txt and paper_1.pdf,
\* paper_2.pdf by their position in the folder.
WithDocument(source_file, source_type, txt) ==
    IF txt # None /\ txt # Some("")
    THEN Append(all_documents, [source_file |-> source_file, source_type |-> source_type,
                                text_length |-> Len(txt[1]), text |-> txt[1]])
    ELSE all_documents

\* The loop stopped at the first abstract that cannot be read.
ProcessAbstract_Stopping ==
    /\ pc = "reading"
    /\ file_no <= Len(abstracts)
    /\ all_documents' = WithDocument("abstract_" \o Char(Digits, file_no + 1) \o ".txt", "abstract",
                                     extract_text_from_abstract(abstracts[file_no]))
    /\ file_no' = IF extract_text_from_abstract(abstracts[file_no]) = None
                  THEN Len(abstracts) + Len(pdfs) + 1
                  ELSE file_no + 1
    /\ UNCHANGED <<text, pc, extracted, case_text, self, results, validator,
                   abstracts, pdfs, extracted_texts>>

\* One turn of `for i, abstract_file in enumerate(abstracts, 1)`.
ProcessAbstract ==
    /\ pc = "reading"
    /\ file_no <= Len(abstracts)
    /\ all_documents' = WithDocument("abstract_" \o Char(Digits, file_no + 1) \o ".txt", "abstract",
                                     extract_text_from_abstract(abstracts[file_no]))
    /\ file_no' = file_no + 1
    /\ UNCHANGED <<text, pc, extracted, case_text, self, results, validator,
                   abstracts, pdfs, extracted_texts>>

\* One turn of `for i, pdf_file in enumerate(pdfs, 1)`.
ProcessPdf ==
    /\ pc = "reading"
    /\ file_no > Len(abstracts) /\ file_no <= Len(abstracts) + Len(pdfs)
    /\ all_documents' = WithDocument("paper_" \o Char(Digits, file_no - Len(abstracts) + 1) \o ".pdf", "pdf",
                                     extract_text_from_pdf(pdfs[file_no - Len(abstracts)]))
    /\ file_no' = file_no + 1
    /\ UNCHANGED <<text, pc, extracted, case_text, self, results, validator,
                   abstracts, pdfs, extracted_texts>>

\* if all_documents: df.to_csv(output_file, index=False); else nothing is
\* written.
SaveCsv ==
    /\ pc = "reading"
    /\ file_no > Len(abstracts) + Len(pdfs)
    /\ extracted_texts' = IF all_documents # <<>> THEN Some(all_documents) ELSE extracted_texts
    /\ pc' = "saved"
    /\ UNCHANGED <<text, extracted, case_text, self, results, validator,
                   abstracts, pdfs, file_no, all_documents>>

\* The folder holds at most MaxFiles abstracts and MaxFiles PDFs: an
\* abstract that cannot be read, an empty one and one with a text; a PDF
\* that cannot be opened, one without pages, one whose second page fails,
\* one of one page and one of two.
DriverInit ==
    /\ \E n \in 0..MaxFiles :
           abstracts \in [1..n -> {[readable |-> FALSE, text |-> ""],
                                   [readable |-> TRUE, text |-> ""],
                                   [readable |-> TRUE, text |-> "Methemoglobin 38%."]}]
    /\ \E n \in 0..MaxFiles :
           pdfs \in [1..n -> {[readable |-> FALSE, pages |-> <<>>],
                              [readable |-> TRUE, pages |-> <<>>],
                              [readable |-> TRUE, pages |-> <<Some("Case report."), None>>],
                              [readable |-> TRUE, pages |-> <<Some("Case report.")>>],
                              [readable |-> TRUE, pages |-> <<Some(""), Some("A man.")>>]}]
    /\ file_no = 1
    /\ all_documents = <<>>
    /\ extracted_texts = None
    /\ pc = "reading"
    /\ text = "" /\ case_text = "" /\ extracted = NoFeatures
    /\ self = [triggers |-> triggers, treatments |-> treatments, symptoms |-> symptoms]
    /\ results = <<>>
    /\ validator = None

DriverNext ==
    \/ ProcessAbstract
    \/ ProcessPdf
    \/ SaveCsv

DriverSpec == DriverInit /\ [][DriverNext]_vars

(***************************************************************************)
(* Properties of extract_meth_level.                                       *)
(***************************************************************************)
\* The float x lies in (0, 100].
Realistic(x) == x.n > 0 /\ x.n <= 100 * x.d

\* The numbers matched in the document by any of the five patterns.
MatchedLevels ==
    UNION {{float(findall(k, lower(text), 1)[j]) : j \in 1..Len(findall(k, lower(text), 1))}
           : k \in 1..NumPatterns}

\* C1: for every text, extract_meth_level returns None or a number v with
\* 0 < v <= 100; a matched number that is 0 or above 100 is never returned.
C1_MethLevelInRange ==
    Returned("meth_level") =>
        \/ extracted.meth_level = None
        \/ Realistic(extracted.meth_level[1])

\* A document in which a pattern matched a number outside (0, 100], and
\* the call returned another, realistic match.
C1_OutOfRangeMatchDiscarded ==
    /\ pc = "trigger"
    /\ \E x \in MatchedLevels : ~Realistic(x)
    /\ extracted.meth_level # None
    /\ Realistic(extracted.meth_level[1])

\* C2: extract_meth_level returns the maximum over the in-range matches of
\* all the patterns: the result is one of the in-range matches and no
\* in-range match of any pattern is greater; with no in-range match it is None.
C2_MethLevelIsMaximum ==
    pc = "trigger" =>
        IF \E x \in MatchedLevels : Realistic(x)
        THEN /\ extracted.meth_level # None
             /\ extracted.meth_level[1] \in MatchedLevels
             /\ \A x \in MatchedLevels : Realistic(x) => FloatLeq(x, extracted.meth_level[1])
        ELSE extracted.meth_level = None

\* A document in which the first pattern matches a smaller number than a
\* later pattern does, and the later, greater number is returned.
C2_LaterPatternGreater ==
    /\ pc = "trigger"
    /\ findall(1, lower(text), 1) # <<>>
    /\ Realistic(float(findall(1, lower(text), 1)[1]))
    /\ extracted.meth_level # None
    /\ FloatLess(float(findall(1, lower(text), 1)[1]), extracted.meth_level[1])

\* C3: for the Example 2 text, where "Methemoglobin" is followed directly by
\* "38%", the extracted level is 38.0.
C3_Example2Level ==
    (pc = "done" /\ text = Example2) => extracted.meth_level = Some(FloatOfInt(38))

(***************************************************************************)
(* Properties of whole records.                                            *)
(***************************************************************************)
\* C4: for the Example 2 text the record has age 34, gender Male, trigger
\* "Dapsone", treatment exactly "Methylene Blue", dose "1.5" and outcome
\* "Recovered".
C4_Example2Fields ==
    (pc = "done" /\ text = Example2) =>
        /\ extracted.age = Some(34)
        /\ extracted.gender = Some("Male")
        /\ extracted.trigger = "Dapsone"
        /\ extracted.treatment = "Methylene Blue"
        /\ extracted.mb_dose = Some("1.5")
        /\ extracted.outcome = "Recovered"

\* The record of the Example 2 text is complete, its dose read with the fraction.
C4_Example2Extracted ==
    pc = "done" /\ text = Example2 /\ extracted.mb_dose = Some("1.5") /\ extracted.age # None

\* C6: on the empty string every field is its sentinel and the score is 0.
C6_EmptyTextSentinels ==
    (pc = "done" /\ text = "") =>
        /\ extracted.meth_level = None
        /\ extracted.mb_dose = None
        /\ extracted.age = None
        /\ extracted.gender = None
        /\ extracted.time_to_improvement = None
        /\ extracted.trigger = "Unknown"
        /\ extracted.trigger_route = "Unknown"
        /\ extracted.treatment = "Unknown"
        /\ extracted.outcome = "Unknown"
        /\ extracted.symptoms = "None specified"
        /\ extracted.g6pd_status = "Not mentioned"
        /\ extracted.data_quality_score = 0

\* The record of the empty string has been scored.
C6_EmptyTextExtracted ==
    pc = "done" /\ text = "" /\ extracted.symptoms = "None specified" /\ extracted.data_quality_score = 0

(***************************************************************************)
(* Properties of extract_case_section and extract_trigger.                 *)
(***************************************************************************)
\* The start, match.start(), of the leftmost match of each case marker
\* that matches the lowercased document.
MarkerStarts ==
    {SetMin(MatchStarts(lower(text), case_markers[m]))
     : m \in {h \in 1..Len(case_markers) : MatchStarts(lower(text), case_markers[h]) # {}}}

\* The positions at which the literal s occurs in t.
Occurrences(t, s) == {i \in 1..Len(t) : At(t, i, s)}

\* C5: when the text mentions "acetaminophen" once, with no context phrase,
\* and holds "dapsone induced methemoglobinemia", the trigger is "Dapsone".
\* Stated for the texts whose case section holds both mentions.
C5_ContextMentionWins ==
    ( /\ pc = "done"
      /\ Cardinality(Occurrences(lower(case_text), "acetaminophen")) = 1
      /\ KeywordScore(lower(case_text), "acetaminophen") = 1
      /\ Contains(lower(case_text), "dapsone induced methemoglobinemia") )
    => extracted.trigger = "Dapsone"

\* C7: when several case markers match, the case section is the text from
\* the earliest marker position on.
C7_EarliestMarker ==
    (pc = "done" /\ Cardinality(MarkerStarts) >= 2) =>
        case_text = SliceFrom(text, SetMin(MarkerStarts))

\* C8: the case section is the first half of the document only when no
\* marker matches; when a marker matches, at index 0 included, it is the
\* text from a marker position on.
C8_FallbackOnlyWithoutMarker ==
    (pc = "done" /\ MarkerStarts # {}) =>
        \E k \in MarkerStarts : case_text = SliceFrom(text, k)

\* C9: the text handed to the trigger extraction is a contiguous suffix
\* text[k:] of the document or its prefix text[:len(text) // 2].
C9_SuffixOrFirstHalf ==
    Returned("trigger") =>
        \/ \E k \in 0..Len(text) : case_text = SubSeq(text, k + 1, Len(text))
        \/ case_text = SubSeq(text, 1, Len(text) \div 2)

\* A document with upper-case letters that is cut at a marker after its
\* start: the case section is a proper suffix and not the first half.
C9_ProperSuffix ==
    /\ pc = "trigger_route"
    /\ text # lower(text)
    /\ \E k \in 1..(Len(text) - 1) : case_text = SubSeq(text, k + 1, Len(text))
    /\ case_text # SubSeq(text, 1, Len(text) \div 2)

\* The trigger labels with a synonym in the text t.
Mentioned(t) == {triggers[m][1] : m \in {h \in 1..Len(triggers) : AnyIn(t, triggers[h][2])}}

\* C10: the trigger is "Unknown" or a trigger with a synonym inside the
\* case section; a trigger mentioned only outside it is never returned.
C10_TriggerFromCaseSection ==
    Returned("trigger") =>
        \/ extracted.trigger = "Unknown"
        \/ \E m \in 1..Len(triggers) : /\ triggers[m][1] = extracted.trigger
                                        /\ AnyIn(lower(case_text), triggers[m][2])

\* A document that mentions one trigger only before the case section and
\* another inside it: the one inside is returned.
C10_BackgroundMentionIgnored ==
    /\ pc = "trigger_route"
    /\ Mentioned(lower(text)) \ Mentioned(lower(case_text)) # {}
    /\ extracted.trigger # "Unknown"
    /\ extracted.trigger \in Mentioned(lower(case_text))

(***************************************************************************)
(* Properties of the context score of extract_trigger.                     *)
(***************************************************************************)
\* No full stop in t from position a to position b.
SameSentence(t, a, b) == \A k \in a..b : Char(t, k) # "."

\* s1 ends at most `window` characters before an occurrence of s2 in t, with
\* no full stop in between.
Within(t, s1, s2, window) ==
    \E i \in Occurrences(t, s1) : \E k \in Occurrences(t, s2) :
        /\ i + Len(s1) <= k
        /\ k - (i + Len(s1)) <= window
        /\ SameSentence(t, i + Len(s1), k - 1)

\* The keywords of the trigger table that are in t.
KeywordsIn(t) ==
    UNION {{triggers[m][2][j] : j \in {h \in 1..Len(triggers[m][2]) : Contains(t, triggers[m][2][h])}}
           : m \in 1..Len(triggers)}

PhraseIndexes == 1..Len(context_phrases)

\* A keyword of t with a cause phrase in the window before it has the +5
\* bonus, and one with a cause phrase in the window after it the +3 bonus.
BonusWithinWindow(t) ==
    \A keyword \in KeywordsIn(t) :
        /\ (\E p \in PhraseIndexes : Within(t, context_phrases[p], keyword, 50))
               => \E p \in PhraseIndexes : PhraseBefore(t, context_phrases[p], keyword)
        /\ (\E p \in PhraseIndexes : Within(t, keyword, context_phrases[p], 30))
               => \E p \in PhraseIndexes : PhraseAfter(t, context_phrases[p], keyword)

\* C11: once the trigger is extracted, every keyword in the case section
\* with a cause phrase at most 50 characters before it in its sentence has
\* the +5 bonus, and every keyword with a cause phrase at most 30 characters
\* after it in its sentence has the +3 bonus.
C11_BonusWithinWindow == pc = "trigger_route" => BonusWithinWindow(lower(case_text))

\* The score of every keyword of t is 1, plus 5 when some cause phrase comes
\* right before it, plus 3 when some cause phrase comes right after it.
ScoredOnce(t) ==
    \A keyword \in KeywordsIn(t) :
        KeywordScore(t, keyword)
            = 1 + (IF \E p \in PhraseIndexes : PhraseBefore(t, context_phrases[p], keyword) THEN 5 ELSE 0)
                + (IF \E p \in PhraseIndexes : PhraseAfter(t, context_phrases[p], keyword) THEN 3 ELSE 0)

\* C12: once the trigger is extracted, the score of every keyword in the
\* case section is 1, 4, 6 or 9: the base 1, plus 5 once when a cause phrase
\* precedes it, plus 3 once when a cause phrase follows it.
C12_BonusAddedOnce == pc = "trigger_route" => ScoredOnce(lower(case_text))

(***************************************************************************)
(* Properties of the choice among the detected triggers.                   *)
(***************************************************************************)
\* The <<label, score>> items of trigger_scores for the text t.
Detected(t) == LET scores == TriggerScores(t, Len(self.triggers))
               IN {scores[i] : i \in 1..Len(scores)}

\* result is what the acceptance rule allows for the detected items S.
AcceptRule(S, result) ==
    /\ S = {} => result = "Unknown"
    /\ (Cardinality(S) >= 2 /\ \A s \in S : s[2] = 1) => result = "Unknown"
    /\ result # "Unknown" =>
           \E s \in S : /\ s[1] = result
                        /\ \A r \in S : r[2] <= s[2]
                        /\ s[2] > 1 \/ Cardinality(S) = 1

\* C13: the extracted trigger is "Unknown" when no trigger is detected and
\* when two or more are detected that all score 1; any other result is a
\* detected trigger of maximal score that scores more than 1 or is the only
\* one detected.
C13_AcceptRule ==
    pc = "trigger_route" => AcceptRule(Detected(lower(case_text)), extracted.trigger)

\* Several triggers detected, none with a context bonus: no trigger returned.
AllAtBase(S) == Cardinality(S) >= 2 /\ \A s \in S : s[2] = 1

C13_SeveralAtBaseRejected ==
    /\ pc = "trigger_route"
    /\ AllAtBase(Detected(lower(case_text)))
    /\ extracted.trigger = "Unknown"

\* The position of a label in the declaration order of the trigger table.
TableIndex(label) == CHOOSE m \in 1..Len(triggers) : triggers[m][1] = label

\* The items of S with the highest score.
Top(S) == {s \in S : \A r \in S : r[2] <= s[2]}

\* Several items share the highest score, and it exceeds 1.
Tie(S) == Cardinality(Top(S)) >= 2 /\ \A s \in Top(S) : s[2] > 1

\* In a tie, result is the item of Top(S) declared first in the trigger table.
FirstDeclared(S, result) ==
    Tie(S) => \E s \in Top(S) : /\ s[1] = result
                                /\ \A r \in Top(S) : TableIndex(s[1]) <= TableIndex(r[1])

\* C14: when several detected triggers share the highest score and it
\* exceeds 1, the extracted trigger is the one of them declared first in the
\* trigger table.
C14_TieByTableOrder ==
    pc = "trigger_route" => FirstDeclared(Detected(lower(case_text)), extracted.trigger)

\* The first position in t of a keyword of the trigger with this label.
FirstMention(t, label) ==
    SetMin(UNION {Occurrences(t, triggers[TableIndex(label)][2][j])
                  : j \in 1..Len(triggers[TableIndex(label)][2])})

\* A tie in which the trigger returned is mentioned in the text after
\* another trigger of the tie.
TieWonByLaterMention(t, result) ==
    /\ Tie(Detected(t))
    /\ \E s \in Top(Detected(t)) : FirstMention(t, s[1]) < FirstMention(t, result)

C14_LaterMentionWinsTie ==
    /\ pc = "trigger_route"
    /\ extracted.trigger # "Unknown"
    /\ TieWonByLaterMention(lower(case_text), extracted.trigger)

(***************************************************************************)
(* Properties of calculate_data_quality_score.                             *)
(***************************************************************************)
\* round(100 * c / 7)
Rounded(c) == (200 * c + 7) \div 14

\* C15: the score of a finished record is 100 * c / 7 rounded to the nearest
\* integer, c being the number of key fields the scorer counted as populated.
C15_ScoreIsRounded ==
    pc = "done" => extracted.data_quality_score = Rounded(KeyFieldCount(extracted))

\* C15, amended: the score of a finished record is the integer part of
\* 100 * c / 7, c being the number of key fields the scorer counted.
C15_ScoreIsFloor ==
    pc = "done" =>
        /\ 7 * extracted.data_quality_score <= 100 * KeyFieldCount(extracted)
        /\ 100 * KeyFieldCount(extracted) < 7 * (extracted.data_quality_score + 1)

\* Six of the seven key fields counted: the score is 85.
C15_SixFieldsScore85 ==
    /\ pc = "done"
    /\ KeyFieldCount(extracted) = 6
    /\ extracted.data_quality_score = 85

\* The key fields of a record that are populated: not null, and not the
\* sentinel of the field.
Populated(e) ==
    {f \in {"meth_level", "age", "gender"} : e[f] # None}
    \cup {f \in {"trigger", "treatment", "outcome"} : e[f] # "Unknown"}
    \cup {f \in {"symptoms"} : e[f] # "None specified"}

\* C16: the scorer counts exactly the populated key fields of the finished
\* record, an extracted age of 0 included.
C16_CountsPopulatedFields ==
    pc = "done" => KeyFieldCount(extracted) = Cardinality(Populated(extracted))

\* C17: the score of a finished record is between 0 and 100; it is 0 exactly
\* when no key field is populated and 100 exactly when all seven are.
C17_ScoreBounds ==
    pc = "done" =>
        /\ extracted.data_quality_score \in 0..100
        /\ extracted.data_quality_score = 0 <=> Populated(extracted) = {}
        /\ extracted.data_quality_score = 100 <=> Cardinality(Populated(extracted)) = NumKeyFields

(***************************************************************************)
(* Properties of the vocabularies of the record.                           *)
(***************************************************************************)
\* The labels (keys) of a table.
Labels(table) == {table[m][1] : m \in 1..Len(table)}

\* The end of the token of s that starts at a: the position before the next
\* ", " or the end of s.
TokenEnd(s, a) == SetMin({i \in a..Len(s) : At(s, i, ", ")} \cup {Len(s) + 1}) - 1

\* s.split(', ') as a set.
Tokens(s) ==
    {SubSeq(s, a, TokenEnd(s, a)) : a \in {1} \cup {i + 2 : i \in Occurrences(s, ", ")}}

\* A field is the sentinel or a list of labels of the table.
Closed(field, table, sentinel) == field = sentinel \/ Tokens(field) \subseteq Labels(table)

\* C18: in a finished record the trigger is a label of the trigger table or
\* "Unknown", the treatment and the symptoms are their sentinel or lists of
\* labels of their tables, and the outcome and the G6PD status are among
\* their four values.
C18_ClosedVocabularies ==
    pc = "done" =>
        /\ extracted.trigger \in Labels(triggers) \cup {"Unknown"}
        /\ Closed(extracted.treatment, treatments, "Unknown")
        /\ Closed(extracted.symptoms, symptoms, "None specified")
        /\ extracted.outcome \in {"Recovered", "Fatal", "Admitted", "Unknown"}
        /\ extracted.g6pd_status \in {"Deficient", "Normal", "Mentioned", "Not mentioned"}

\* A record with several symptoms, a treatment and a trigger found.
C18_SeveralLabelsExtracted ==
    /\ pc = "done"
    /\ Cardinality(Tokens(extracted.symptoms)) >= 2
    /\ Tokens(extracted.symptoms) \subseteq Labels(symptoms)
    /\ extracted.trigger \in Labels(triggers)

(***************************************************************************)
(* Properties of repeated calls on one extractor.                          *)
(***************************************************************************)
\* The records appended so far for the text t.
RecordsOf(t) == {results[i][2] : i \in {k \in 1..Len(results) : results[k][1] = t}}

\* C19: when a call on a text has returned, its record is equal, field by
\* field, to the record of every earlier call of the batch on the same text.
C19_SameTextSameRecord ==
    pc = "done" => \A r \in RecordsOf(text) : \A f \in DOMAIN NoFeatures : r[f] = extracted[f]

\* A second call on a text returns after a call on another text in between.
C19_RepeatedAfterOtherCall ==
    /\ pc = "done"
    /\ Len(results) = 2
    /\ results[1][1] = text
    /\ results[2][1] # text
    /\ results[2][2] # extracted
    /\ results[1][2] = extracted

NamesG6pd(t) == AnyIn(t, <<"g6pd", "g-6-pd", "glucose-6-phosphate dehydrogenase">>)
SaysDeficient(t) == AnyIn(t, <<"deficiency", "deficient">>)
NamesMethyleneBlue(t) == AnyIn(t, treatments[1][2])

\* The record e of the lowercased text t has the status "Deficient" exactly
\* when t names G6PD and says deficient, and the treatment "Methylene Blue"
\* exactly when t names it, each whatever the other.
StatusAndTreatment(t, e) ==
    /\ e.g6pd_status = "Deficient" <=> (NamesG6pd(t) /\ SaysDeficient(t))
    /\ "Methylene Blue" \in Tokens(e.treatment) <=> NamesMethyleneBlue(t)

\* C21: in a finished record the G6PD status is "Deficient" whenever the
\* text names G6PD with a deficiency word, and the treatment includes
\* "Methylene Blue" whenever the text names it; neither field depends on
\* the other.
C21_DeficientWithMethyleneBlue == pc = "done" => StatusAndTreatment(lower(text), extracted)

\* A G6PD deficient record treated with methylene blue.
C21_BothExtracted ==
    /\ pc = "done"
    /\ extracted.g6pd_status = "Deficient"
    /\ "Methylene Blue" \in Tokens(extracted.treatment)

(***************************************************************************)
(* Properties of the outcome.                                              *)
(***************************************************************************)
RecoveryTerm(t) == \E w \in {"recovered", "discharged", "improved", "resolved", "uneventful recovery"} : Occurrences(t, w) # {}
DeathTerm(t) == \E w \in {"died", "death", "fatal", "expired", "mortality"} : Occurrences(t, w) # {}
AdmissionTerm(t) == \E w \in {"transferred", "admitted"} : Occurrences(t, w) # {}

\* outcome is the one the priority recovery, death, admission gives for t.
OutcomeByPriority(t, outcome) ==
    /\ RecoveryTerm(t) => outcome = "Recovered"
    /\ (~RecoveryTerm(t) /\ DeathTerm(t)) => outcome = "Fatal"
    /\ (~RecoveryTerm(t) /\ ~DeathTerm(t) /\ AdmissionTerm(t)) => outcome = "Admitted"
    /\ (~RecoveryTerm(t) /\ ~DeathTerm(t) /\ ~AdmissionTerm(t)) => outcome = "Unknown"

\* C22: the outcome of a finished record is "Recovered" when the text has a
\* recovery term, else "Fatal" when it has a death term, else "Admitted"
\* when it has a transfer or admission term, else "Unknown".
C22_OutcomePriority == pc = "done" => OutcomeByPriority(lower(text), extracted.outcome)

\* A text with a death term before a recovery term: "Recovered".
C22_RecoveryOverDeath ==
    /\ pc = "done"
    /\ DeathTerm(lower(text))
    /\ extracted.outcome = "Recovered"

(***************************************************************************)
(* Properties of the demographics.                                         *)
(***************************************************************************)
\* w stands in t as a word: no letter, digit or underscore on either side.
Word(t, w) ==
    \E i \in Occurrences(t, w) : ~IsWordChar(Char(t, i - 1)) /\ ~IsWordChar(Char(t, i + Len(w)))
ManWord(t) == \E w \in {"man", "men", "boy"} : Word(t, w)
WomanWord(t) == \E w \in {"woman", "women", "girl"} : Word(t, w)

\* g is the gender the cascade gives for the words of intro.
GenderCascade(intro, g) ==
    /\ (Word(intro, "male") /\ ~Word(intro, "female")) => g = Some("Male")
    /\ Word(intro, "female") => g = Some("Female")
    /\ (~Word(intro, "male") /\ ~Word(intro, "female") /\ ManWord(intro)) => g = Some("Male")
    /\ (~Word(intro, "male") /\ ~Word(intro, "female") /\ ~ManWord(intro) /\ WomanWord(intro))
           => g = Some("Female")
    /\ (~Word(intro, "male") /\ ~Word(intro, "female") /\ ~ManWord(intro) /\ ~WomanWord(intro))
           => g = None

\* C23: the gender of a finished record is what the cascade male without
\* female, female, man-synonym, woman-synonym, else null gives on the first
\* 500 characters of the lowercased text; words after them play no part.
C23_GenderFromIntro == pc = "done" => GenderCascade(SliceTo(lower(text), 500), extracted.gender)

\* A text with "man" in its first 500 characters and "female" only after
\* them: Male.
C23_WordAfterIntroIgnored ==
    /\ pc = "done"
    /\ Word(lower(text), "female")
    /\ ~Word(SliceTo(lower(text), 500), "female")
    /\ extracted.gender = Some("Male")

\* The match of the k-th age pattern at position i of t, and the positions
\* where the k-th pattern matches.
AgePatternAt(k, t, i) ==
    CASE k = 1 -> Age1At(t, i) [] k = 2 -> Age2At(t, i) [] k = 3 -> Age3At(t, i) [] k = 4 -> Age4At(t, i)
AgePositions(k, t) == {i \in 1..Len(t) : AgePatternAt(k, t, i) # <<>>}
AgePatternsIn(t) == {k \in 1..4 : AgePositions(k, t) # {}}

\* age is the integer of the leftmost match of the first pattern, in the
\* order of the list, that matches in t; null when none matches.
AgeByPatternOrder(t, K, age) ==
    IF K = {} THEN age = None
    ELSE age = Some(int(AgePatternAt(SetMin(K), t, SetMin(AgePositions(SetMin(K), t)))[1]))

\* C24: the age of a finished record comes from the first of the patterns
\* "<N>-year-old", "<N>yo", "age: <N>", "aged <N>" that matches anywhere in
\* the text, wherever the matches of the later patterns lie, as an integer;
\* it is null when no pattern matches.
C24_AgeByPatternOrder == pc = "done" => AgeByPatternOrder(lower(text), AgePatternsIn(lower(text)), extracted.age)

\* "aged 40 34-year-old ": the fourth pattern matches first in the text, the
\* first pattern gives the age.
C24_EarlierPatternLaterInText ==
    /\ pc = "done"
    /\ AgePositions(1, lower(text)) # {} /\ AgePositions(4, lower(text)) # {}
    /\ SetMin(AgePositions(4, lower(text))) < SetMin(AgePositions(1, lower(text)))
    /\ extracted.age = Some(34)

(***************************************************************************)
(* Properties of the G6PD status.                                          *)
(***************************************************************************)
SaysNormal(t) == Occurrences(t, "normal") # {}

\* status is the one the cascade gives for t.
StatusCascade(t, status) ==
    /\ status = "Not mentioned" <=> ~NamesG6pd(t)
    /\ (NamesG6pd(t) /\ SaysDeficient(t)) => status = "Deficient"
    /\ (NamesG6pd(t) /\ ~SaysDeficient(t) /\ SaysNormal(t)) => status = "Normal"
    /\ (NamesG6pd(t) /\ ~SaysDeficient(t) /\ ~SaysNormal(t)) => status = "Mentioned"

\* C25: the G6PD status of a finished record is "Not mentioned" exactly when
\* the text has no G6PD synonym; otherwise it is "Deficient" when a
\* deficiency word occurs anywhere in the text, else "Normal" when "normal"
\* occurs, else "Mentioned".
C25_StatusCascade == pc = "done" => StatusCascade(lower(text), extracted.g6pd_status)

\* A deficiency word and "normal" without a G6PD synonym: "Not mentioned".
C25_DeficiencyWordAlone ==
    /\ pc = "done"
    /\ SaysDeficient(lower(text)) /\ SaysNormal(lower(text)) /\ ~NamesG6pd(lower(text))
    /\ extracted.g6pd_status = "Not mentioned"

(***************************************************************************)
(* Properties of the treatment, the symptoms and the route.                *)
(***************************************************************************)
\* The entries of a table, by index, with a synonym somewhere in t.
EntriesIn(t, table) == {m \in 1..Len(table) : \E j \in 1..Len(table[m][2]) : Occurrences(t, table[m][2][j]) # {}}

\* The labels of the entries L, each once, in the order of the table,
\* separated by ", ".
RECURSIVE InTableOrder(_, _)
InTableOrder(table, L) ==
    IF L = {} THEN ""
    ELSE IF L = {SetMin(L)} THEN table[SetMin(L)][1]
    ELSE table[SetMin(L)][1] \o ", " \o InTableOrder(table, L \ {SetMin(L)})

\* field lists the entries L of the table, or is the sentinel when there are none.
ListsEntries(field, table, L, sentinel) ==
    field = IF L = {} THEN sentinel ELSE InTableOrder(table, L)

\* C26: the treatment and the symptoms of a finished record hold a label
\* exactly when one of its synonyms occurs in the text, each label once, in
\* the order of the table; with no label the treatment is "Unknown" and the
\* symptoms are "None specified".
C26_LabelsInTableOrder ==
    pc = "done" =>
        /\ ListsEntries(extracted.treatment, treatments, EntriesIn(lower(text), treatments), "Unknown")
        /\ ListsEntries(extracted.symptoms, symptoms, EntriesIn(lower(text), symptoms), "None specified")

\* "dyspnea cyanotic cyanosis ": two synonyms of Cyanosis after a synonym of
\* Dyspnea give "Cyanosis, Dyspnea".
C26_TwoSynonymsOneLabel ==
    /\ pc = "done"
    /\ Occurrences(lower(text), "cyanotic") # {} /\ Occurrences(lower(text), "cyanosis") # {}
    /\ Occurrences(lower(text), "dyspnea") # {}
    /\ SetMin(Occurrences(lower(text), "dyspnea")) < SetMin(Occurrences(lower(text), "cyanotic"))
    /\ extracted.symptoms = "Cyanosis, Dyspnea"
    /\ extracted.treatment = "Unknown"

\* The first position in t of a synonym of the m-th route.
RoutePosition(t, m) == SetMin(UNION {Occurrences(t, routes[m][2][j]) : j \in 1..Len(routes[m][2])})

\* route is the first of the routes L, in the order of the list, or "Unknown".
FirstInList(route, L) == route = IF L = {} THEN "Unknown" ELSE routes[SetMin(L)][1]

\* C27: the route of a finished record is the first of Topical, Oral,
\* Intravenous, Inhalation, Subcutaneous that has a synonym in the text,
\* wherever the synonyms lie, and "Unknown" when none has.
C27_FirstRouteInListOrder == pc = "done" => FirstInList(extracted.trigger_route, EntriesIn(lower(text), routes))

\* "inhaled oral ": Inhalation is named first in the text, the route is Oral.
C27_LaterInTextWins ==
    /\ pc = "done"
    /\ EntriesIn(lower(text), routes) = {2, 4}
    /\ RoutePosition(lower(text), 4) < RoutePosition(lower(text), 2)
    /\ extracted.trigger_route = "Oral"

(***************************************************************************)
(* Properties of the validator.                                            *)
(***************************************************************************)
\* How many issues of one of the types the validator holds for row r.
IssueCount(r, types) ==
    Cardinality({k \in 1..Len(validator.issues) :
                     validator.issues[k].pmid = r /\ validator.issues[k].issue_type \in types})

\* The record of row r is a G6PD-deficient patient given methylene blue.
Contraindicated(e) == e.g6pd_status = "Deficient" /\ "Methylene Blue" \in Tokens(e.treatment)

\* The row of the validator holds the fields of the record e.
SameFields(row, e) ==
    /\ row.meth_level = e.meth_level /\ row.age = e.age
    /\ row.trigger = e.trigger /\ row.treatment = e.treatment /\ row.g6pd_status = e.g6pd_status

\* C29: when the validator has run its checks, every record
\* with status "Deficient" and "Methylene Blue" among its treatments has
\* exactly one 'G6PD + Methylene Blue' issue, every other record has none,
\* and every row of the validator still holds the fields of its record.
C29_ContraindicationFlaggedOnce ==
    pc = "validated" =>
        /\ Len(validator.df) = Len(results)
        /\ \A r \in 1..Len(results) :
               /\ IssueCount(r, {"G6PD + Methylene Blue"}) = IF Contraindicated(results[r][2]) THEN 1 ELSE 0
               /\ SameFields(validator.df[r], results[r][2])

\* A batch with a flagged record after a record that is not flagged.
C29_FlaggedAndUnflagged ==
    /\ pc = "validated"
    /\ Len(results) >= 2
    /\ ~Contraindicated(results[1][2]) /\ Contraindicated(results[2][2])
    /\ IssueCount(1, {"G6PD + Methylene Blue"}) = 0
    /\ IssueCount(2, {"G6PD + Methylene Blue"}) = 1

MetHbIssueTypes == {"Invalid MetHb Range", "Unusually High MetHb", "Low MetHb Level"}

\* C30: when the validator has run its checks, no record of the batch has
\* an 'Invalid MetHb Range' issue and none has more than one MetHb issue.
C30_NoInvalidRange ==
    pc = "validated" =>
        \A r \in 1..Len(results) :
            /\ IssueCount(r, {"Invalid MetHb Range"}) = 0
            /\ IssueCount(r, MetHbIssueTypes) <= 1

\* A record with level 75 reported once, as unusually high, in a batch with
\* a record that has no level.
C30_HighLevelReportedOnce ==
    /\ pc = "validated"
    /\ \E r \in 1..Len(results) :
           /\ results[r][2].meth_level = Some(FloatOfInt(75))
           /\ IssueCount(r, {"Unusually High MetHb"}) = 1
           /\ IssueCount(r, MetHbIssueTypes) = 1
    /\ \E r \in 1..Len(results) :
           /\ results[r][2].meth_level = None
           /\ IssueCount(r, MetHbIssueTypes) = 0

(***************************************************************************)
(* Properties of process_all_documents.                                    *)
(***************************************************************************)
\* The abstracts and the PDFs, by position, that are read with a text that
\* is not empty.
ReadAbstracts == {k \in 1..Len(abstracts) : abstracts[k].readable /\ abstracts[k].text # ""}
ReadPdfs ==
    {k \in 1..Len(pdfs) : /\ pdfs[k].readable
                          /\ pdfs[k].pages # <<>>
                          /\ \A p \in 1..Len(pdfs[k].pages) : pdfs[k].pages[p] # None}

\* The rows of `rows` that come from the file source_file.
RowsOf(rows, source_file) == {n \in 1..Len(rows) : rows[n].source_file = source_file}
AbstractName(k) == "abstract_" \o Char(Digits, k + 1) \o ".txt"
PdfName(k) == "paper_" \o Char(Digits, k + 1) \o ".pdf"

\* rows has one row for every file that was read, and no other row.
OneRowPerReadFile(rows) ==
    /\ Len(rows) = Cardinality(ReadAbstracts) + Cardinality(ReadPdfs)
    /\ \A k \in ReadAbstracts :
           /\ Cardinality(RowsOf(rows, AbstractName(k))) = 1
           /\ \A n \in RowsOf(rows, AbstractName(k)) :
                  rows[n].text = abstracts[k].text /\ rows[n].source_type = "abstract"
    /\ \A k \in ReadPdfs :
           /\ Cardinality(RowsOf(rows, PdfName(k))) = 1
           /\ \A n \in RowsOf(rows, PdfName(k)) : rows[n].text # "" /\ rows[n].source_type = "pdf"
    /\ \A n \in 1..Len(rows) : rows[n].text_length = Len(rows[n].text)

\* C28: while files remain the driver can take its next step, whatever the
\* reads before gave; and when it has saved, the output holds exactly one
\* row for every file read with a text that is not empty and no row for a
\* file whose read failed (nothing is written when no file was read).
C28_FailedReadsLeftOut ==
    /\ pc = "reading" => ENABLED DriverNext
    /\ pc = "saved" =>
           IF ReadAbstracts \cup ReadPdfs = {} THEN extracted_texts = None
           ELSE extracted_texts # None /\ OneRowPerReadFile(extracted_texts[1])

\* A run in which an abstract that cannot be read comes before one that is
\* read, and a PDF whose page fails before one that is read: two rows.
C28_ReadAfterFailedRead ==
    /\ pc = "saved"
    /\ Len(abstracts) = 2 /\ ~abstracts[1].readable /\ 2 \in ReadAbstracts
    /\ Len(pdfs) = 2 /\ pdfs[1].readable /\ 1 \notin ReadPdfs /\ 2 \in ReadPdfs
    /\ extracted_texts # None
    /\ Len(extracted_texts[1]) = 2

=============================================================================
